---------------------------- MODULE Spec2Model ----------------------------
(***************************************************************************)
(* Configuration loading of kfreiman/x, package config.                    *)
(*                                                                         *)
(* The repository holds two definitions of Load that differ only in how    *)
(* the external file step treats a missing .env file:                      *)
(*   "fatal"   - src/config/config.go, lines 36-67: godotenv.Load is       *)
(*               called directly and its error is returned;                *)
(*   "lenient" - src/unnamed/part_000, lines 241-276: os.Stat("./.env")    *)
(*               comes first and a missing file is only logged.            *)
(* A call is a record holding the position of the call in the body of Load *)
(* and its local state.  The process environment and the .env file are     *)
(* shared by every call.                                                   *)
(***************************************************************************)
EXTENDS Integers, Sequences, FiniteSets, TLC

VARIABLES env,       \* process environment: a map from variable name to value
          file,      \* the .env file of the working directory
          call,      \* per caller: the running Load call
          injected   \* history: entries of env that a file load put there

vars == <<env, file, call, injected>>

(* Longest option list passed to one Load call. *)
MaxOpts == 3

(* Longest option list passed to a Load call that runs beside another one. *)
MaxOptsConc == 2

Procs == {1, 2}

Variants == {"fatal", "lenient"}

---------------------------------------------------------------------------
(* TestConfig and its field tags.                                          *)

Tags == [Host |-> "HOST", Port |-> "PORT", Debug |-> "DEBUG", Optional |-> "OPTIONAL"]

Fields == DOMAIN Tags

(* default:"..." tags; a field without the tag is not in the domain. *)
Defaults == [Port |-> "8080", Debug |-> "false"]

(* validate:"required" *)
Required == {"Host"}

ZeroConfig == [Host |-> "", Port |-> 0, Debug |-> FALSE, Optional |-> ""]

Prefixes == {"", "APP_"}

(* The destination argument: nil, a TestConfig value, a pointer to an int, *)
(* or a pointer to a TestConfig.                                           *)
Shapes == {"nil", "struct", "ptr_int", "ptr_struct"}

---------------------------------------------------------------------------
(* Errors.  path is the file name an error message names, fields the       *)
(* structure fields it names.                                              *)

Nil == [kind |-> "nil", path |-> "", fields |-> {}]

OpenError == [kind |-> "file", path |-> ".env", fields |-> {}]

FileParseError == [kind |-> "file", path |-> "", fields |-> {}]

ShapeError == [kind |-> "shape", path |-> "", fields |-> {}]

DecodeError(fs) == [kind |-> "decode", path |-> "", fields |-> fs]

ValidationError(fs) == [kind |-> "validation", path |-> "", fields |-> fs]

---------------------------------------------------------------------------
(* Options.                                                                *)

ZeroOptions == [prefix |-> "", skipEnv |-> FALSE, skipValid |-> FALSE]

WithPrefix(prefix) == [name |-> "WithPrefix", arg |-> prefix]

SkipEnvFile == [name |-> "SkipEnvFile", arg |-> ""]

SkipValidation == [name |-> "SkipValidation", arg |-> ""]

Options == {WithPrefix(x) : x \in Prefixes} \cup {SkipEnvFile, SkipValidation}

(* Apply with WithPrefix keeping a prefix that is already set. *)
Apply_FirstPrefixWins(opt, o) ==
  CASE opt.name = "WithPrefix"     -> IF o.prefix = "" THEN [o EXCEPT !.prefix = opt.arg]
                                      ELSE o
    [] opt.name = "SkipEnvFile"    -> [o EXCEPT !.skipEnv = TRUE]
    [] opt.name = "SkipValidation" -> [o EXCEPT !.skipValid = TRUE]

(* opt(options): the closure an option constructor returns. *)
Apply(opt, o) ==
  CASE opt.name = "WithPrefix"     -> [o EXCEPT !.prefix = opt.arg]
    [] opt.name = "SkipEnvFile"    -> [o EXCEPT !.skipEnv = TRUE]
    [] opt.name = "SkipValidation" -> [o EXCEPT !.skipValid = TRUE]

(* for _, opt := range opts { opt(options) } *)
RECURSIVE ApplyAll(_, _)
ApplyAll(opts, o) ==
  IF opts = <<>> THEN o ELSE ApplyAll(Tail(opts), Apply(Head(opts), o))

(* options := &configOptions{} and the loop over opts. *)
BuildOptions(opts) == ApplyAll(opts, ZeroOptions)

OptSeqs(n) == UNION {[1..k -> Options] : k \in 0..n}

---------------------------------------------------------------------------
(* The process environment and the .env file.                              *)

EmptyEnv == <<>>

(* os.Setenv *)
SetenvIn(e, k, v) == [x \in DOMAIN e \cup {k} |-> IF x = k THEN v ELSE e[x]]

(* os.Unsetenv *)
UnsetenvIn(e, k) == [x \in DOMAIN e \ {k} |-> e[x]]

(* The variables the tests set, with PORT=0 and DEBUG=false added as       *)
(* values that decode to the zero value of their fields.                   *)
SetenvInputs ==
  { <<"HOST", "localhost">>, <<"PORT", "9090">>, <<"PORT", "0">>,
    <<"PORT", "invalid">>, <<"DEBUG", "true">>, <<"DEBUG", "false">>,
    <<"APP_HOST", "localhost">>, <<"APP_PORT", "9090">> }

NoFile == [exists |-> FALSE, lines |-> <<>>]

(* A file is a sequence of lines; a line is <<key, value>>, or <<text>>     *)
(* when it holds no separator.                                             *)
TestEnvFile == [exists |-> TRUE, lines |-> << <<"HOST", "testhost">>, <<"PORT", "5000">> >>]

MalformedEnvFile == [exists |-> TRUE, lines |-> << <<"HOST", "testhost">>, <<"PORT">> >>]

FileInputs == {TestEnvFile, MalformedEnvFile}

(* godotenv: the file read into a map, a later line replacing an earlier   *)
(* one for the same key; a line without a separator is an error.           *)
RECURSIVE ParseEnvFile(_, _)
ParseEnvFile(lines, m) ==
  IF lines = <<>> THEN [ok |-> TRUE, map |-> m]
  ELSE IF Len(Head(lines)) # 2 THEN [ok |-> FALSE, map |-> m]
  ELSE ParseEnvFile(Tail(lines), SetenvIn(m, Head(lines)[1], Head(lines)[2]))

---------------------------------------------------------------------------
(* Decoding, default injection and validation of a TestConfig.             *)

Kinds == [Host |-> "string", Port |-> "int", Debug |-> "bool", Optional |-> "string"]

(* strconv.ParseInt on the literals of the model. *)
ParseInt(s) ==
  CASE s = "0"    -> [ok |-> TRUE, v |-> 0]
    [] s = "5000" -> [ok |-> TRUE, v |-> 5000]
    [] s = "8080" -> [ok |-> TRUE, v |-> 8080]
    [] s = "9090" -> [ok |-> TRUE, v |-> 9090]
    [] OTHER      -> [ok |-> FALSE, v |-> 0]

(* strconv.ParseBool on the literals of the model. *)
ParseBool(s) ==
  CASE s \in {"true", "1"}  -> [ok |-> TRUE, v |-> TRUE]
    [] s \in {"false", "0"} -> [ok |-> TRUE, v |-> FALSE]
    [] OTHER                -> [ok |-> FALSE, v |-> FALSE]

Convert(f, s) ==
  CASE Kinds[f] = "int"    -> ParseInt(s)
    [] Kinds[f] = "bool"   -> ParseBool(s)
    [] Kinds[f] = "string" -> [ok |-> TRUE, v |-> s]

(* The variable a field is read from. *)
EnvKey(prefix, f) == prefix \o Tags[f]

(* A field has an environment value when its variable is set and not empty. *)
HasEnvValue(e, prefix, f) ==
  EnvKey(prefix, f) \in DOMAIN e /\ e[EnvKey(prefix, f)] # ""

(* env.ParseWithOptions on a pointer to a TestConfig: every field whose    *)
(* variable is set is converted and stored; the fields that do not convert *)
(* are left alone and reported together.                                   *)
Decode(d, e, prefix) ==
  LET bad == {f \in Fields :
                HasEnvValue(e, prefix, f) /\ ~Convert(f, e[EnvKey(prefix, f)]).ok}
      out == [f \in Fields |->
                IF HasEnvValue(e, prefix, f) /\ f \notin bad
                THEN Convert(f, e[EnvKey(prefix, f)]).v
                ELSE d[f]]
  IN  [dest |-> out, err |-> IF bad = {} THEN Nil ELSE DecodeError(bad)]

(* defaults.SetDefaults: a field holding its zero value takes its declared *)
(* default.                                                                *)
SetDefaultsOf(d) ==
  [f \in Fields |->
     IF f \in DOMAIN Defaults /\ d[f] = ZeroConfig[f]
     THEN Convert(f, Defaults[f]).v
     ELSE d[f]]

(* validator.Struct: every required field holding its zero value is        *)
(* reported.                                                               *)
ValidateStruct(d) ==
  LET missing == {f \in Required : d[f] = ZeroConfig[f]}
  IN  IF missing = {} THEN Nil ELSE ValidationError(missing)

---------------------------------------------------------------------------
(* Calls.                                                                  *)
(*   pc          position in the body of Load                              *)
(*   opts        the option list; read only by the loop that builds        *)
(*               options, and forgotten by the step after it               *)
(*   dest        the TestConfig the destination points to                  *)
(*   envMap      godotenv: the parsed file                                 *)
(*   pending     godotenv: the keys still to be set                        *)
(* History fields, read by no step:                                        *)
(*   envAtStart  the environment when the call began                       *)
(*   seen        the environment the decoder read                          *)
(*   steps       the steps executed so far, in order                       *)
(*   failed      the step that failed, "" while none has                   *)
(*   inherited   the value of injected when the call began                 *)

IdleCall ==
  [pc |-> "idle", variant |-> "fatal", shape |-> "nil", opts |-> <<>>,
   options |-> ZeroOptions, dest |-> ZeroConfig, err |-> Nil,
   envMap |-> EmptyEnv, pending |-> {},
   envAtStart |-> EmptyEnv, seen |-> EmptyEnv, steps |-> <<>>,
   failed |-> "", inherited |-> EmptyEnv]

AllIdle == \A p \in Procs : call[p].pc = "idle"

Update(p, c) == call' = [call EXCEPT ![p] = [c EXCEPT !.opts = <<>>]]

Init ==
  /\ env = EmptyEnv
  /\ file = NoFile
  /\ call = [p \in Procs |-> IdleCall]
  /\ injected = EmptyEnv

(* os.Setenv in the code around Load. *)
Setenv ==
  /\ AllIdle
  /\ \E kv \in SetenvInputs :
       /\ env' = SetenvIn(env, kv[1], kv[2])
       /\ injected' = UnsetenvIn(injected, kv[1])
  /\ UNCHANGED <<file, call>>

(* os.Unsetenv in the code around Load. *)
Unsetenv ==
  /\ AllIdle
  /\ \E k \in DOMAIN env :
       /\ env' = UnsetenvIn(env, k)
       /\ injected' = UnsetenvIn(injected, k)
  /\ UNCHANGED <<file, call>>

(* os.WriteFile(".env", ...) *)
WriteFile ==
  /\ AllIdle
  /\ \E f \in FileInputs : file' = f
  /\ UNCHANGED <<env, call, injected>>

(* os.Remove(".env") *)
RemoveFile ==
  /\ AllIdle
  /\ file.exists
  /\ file' = NoFile
  /\ UNCHANGED <<env, call, injected>>

(* Load is entered with a zeroed TestConfig and the options record is      *)
(* built.                                                                  *)
Begin(p, n, shapes) ==
  /\ call[p].pc = "idle"
  /\ \E v \in Variants, sh \in shapes, opts \in OptSeqs(n) :
       call' = [call EXCEPT ![p] =
                  [IdleCall EXCEPT !.pc = "envfile", !.variant = v, !.shape = sh,
                                   !.opts = opts, !.options = BuildOptions(opts),
                                   !.envAtStart = env, !.inherited = injected]]
  /\ UNCHANGED <<env, file, injected>>

LoadBegin(p) == Begin(p, MaxOpts, Shapes)

(* if !options.skipEnv is false: the file step is left out. *)
EnvFileSkipped(p) ==
  /\ call[p].pc = "envfile"
  /\ call[p].options.skipEnv
  /\ Update(p, [call[p] EXCEPT !.pc = "decode"])
  /\ UNCHANGED <<env, file, injected>>

(* StatEnvFile returning the error of a missing file. *)
StatEnvFile_MissingIsFatal(p) ==
  /\ call[p].pc = "envfile"
  /\ ~call[p].options.skipEnv
  /\ call[p].variant = "lenient"
  /\ Update(p, IF file.exists
               THEN [call[p] EXCEPT !.pc = "godotenv", !.steps = Append(@, "stat")]
               ELSE [call[p] EXCEPT !.pc = "done", !.steps = Append(@, "stat"),
                                    !.err = OpenError, !.failed = "stat"])
  /\ UNCHANGED <<env, file, injected>>

(* os.Stat("./.env"): a missing file is logged and the call goes on. *)
StatEnvFile(p) ==
  /\ call[p].pc = "envfile"
  /\ ~call[p].options.skipEnv
  /\ call[p].variant = "lenient"
  /\ Update(p, [call[p] EXCEPT !.pc = IF file.exists THEN "godotenv" ELSE "decode",
                                !.steps = Append(@, "stat")])
  /\ UNCHANGED <<env, file, injected>>

(* GodotenvLoad with the error of a missing file dropped. *)
GodotenvLoad_MissingIgnored(p) ==
  /\ ~call[p].options.skipEnv
  /\ \/ call[p].pc = "envfile" /\ call[p].variant = "fatal"
     \/ call[p].pc = "godotenv"
  /\ LET c == [call[p] EXCEPT !.steps = Append(@, "file")]
         parsed == ParseEnvFile(file.lines, EmptyEnv)
         new == DOMAIN parsed.map \ DOMAIN env
     IN  Update(p,
           IF ~file.exists THEN [c EXCEPT !.pc = "decode"]
           ELSE IF ~parsed.ok
           THEN [c EXCEPT !.pc = "done", !.err = FileParseError, !.failed = "file"]
           ELSE [c EXCEPT !.pc = IF new = {} THEN "decode" ELSE "setenv",
                          !.envMap = parsed.map, !.pending = new])
  /\ UNCHANGED <<env, file, injected>>

(* godotenv.Load(): the file is read and parsed, and the keys the          *)
(* environment does not hold yet are marked to be set.                     *)
GodotenvLoad(p) ==
  /\ ~call[p].options.skipEnv
  /\ \/ call[p].pc = "envfile" /\ call[p].variant = "fatal"
     \/ call[p].pc = "godotenv"
  /\ LET c == [call[p] EXCEPT !.steps = Append(@, "file")]
         parsed == ParseEnvFile(file.lines, EmptyEnv)
         new == DOMAIN parsed.map \ DOMAIN env
     IN  Update(p,
           IF ~file.exists
           THEN [c EXCEPT !.pc = "done", !.err = OpenError, !.failed = "file"]
           ELSE IF ~parsed.ok
           THEN [c EXCEPT !.pc = "done", !.err = FileParseError, !.failed = "file"]
           ELSE [c EXCEPT !.pc = IF new = {} THEN "decode" ELSE "setenv",
                          !.envMap = parsed.map, !.pending = new])
  /\ UNCHANGED <<env, file, injected>>

(* godotenv.Load(): one os.Setenv of its loop over the parsed file. *)
GodotenvSetenv(p) ==
  /\ call[p].pc = "setenv"
  /\ \E k \in call[p].pending :
       /\ env' = SetenvIn(env, k, call[p].envMap[k])
       /\ injected' = SetenvIn(injected, k, call[p].envMap[k])
       /\ Update(p, [call[p] EXCEPT !.pending = @ \ {k},
                                     !.pc = IF call[p].pending = {k} THEN "decode"
                                            ELSE "setenv"])
  /\ UNCHANGED file

(* ParseWithOptions with its error left unchecked. *)
ParseWithOptions_ErrorUnchecked(p) ==
  /\ call[p].pc = "decode"
  /\ LET c == [call[p] EXCEPT !.steps = Append(@, "decode"), !.seen = env]
         r == Decode(c.dest, env, c.options.prefix)
     IN  Update(p,
           IF c.shape # "ptr_struct"
           THEN [c EXCEPT !.pc = "done", !.err = ShapeError, !.failed = "decode"]
           ELSE IF r.err # Nil
           THEN [c EXCEPT !.pc = "defaults", !.dest = r.dest, !.failed = "decode"]
           ELSE [c EXCEPT !.pc = "defaults", !.dest = r.dest])
  /\ UNCHANGED <<env, file, injected>>

(* ParseWithOptions decoding the environment the call began in. *)
ParseWithOptions_StartEnvironment(p) ==
  /\ call[p].pc = "decode"
  /\ LET c == [call[p] EXCEPT !.steps = Append(@, "decode"), !.seen = env]
         r == Decode(c.dest, c.envAtStart, c.options.prefix)
     IN  Update(p,
           IF c.shape # "ptr_struct"
           THEN [c EXCEPT !.pc = "done", !.err = ShapeError, !.failed = "decode"]
           ELSE IF r.err # Nil
           THEN [c EXCEPT !.pc = "done", !.err = r.err, !.dest = r.dest,
                          !.failed = "decode"]
           ELSE [c EXCEPT !.pc = "defaults", !.dest = r.dest])
  /\ UNCHANGED <<env, file, injected>>

(* env.ParseWithOptions(dest, env.Options{Prefix: options.prefix}) and the *)
(* return of its error.                                                    *)
ParseWithOptions(p) ==
  /\ call[p].pc = "decode"
  /\ LET c == [call[p] EXCEPT !.steps = Append(@, "decode"), !.seen = env]
         r == Decode(c.dest, env, c.options.prefix)
     IN  Update(p,
           IF c.shape # "ptr_struct"
           THEN [c EXCEPT !.pc = "done", !.err = ShapeError, !.failed = "decode"]
           ELSE IF r.err # Nil
           THEN [c EXCEPT !.pc = "done", !.err = r.err, !.dest = r.dest,
                          !.failed = "decode"]
           ELSE [c EXCEPT !.pc = "defaults", !.dest = r.dest])
  /\ UNCHANGED <<env, file, injected>>

(* SetDefaults left out of the call. *)
SetDefaults_LeftOut(p) ==
  /\ call[p].pc = "defaults"
  /\ Update(p, [call[p] EXCEPT !.pc = "validate", !.steps = Append(@, "defaults")])
  /\ UNCHANGED <<env, file, injected>>

(* defaults.SetDefaults(dest) *)
SetDefaults(p) ==
  /\ call[p].pc = "defaults"
  /\ Update(p, [call[p] EXCEPT !.pc = "validate", !.dest = SetDefaultsOf(@),
                                !.steps = Append(@, "defaults")])
  /\ UNCHANGED <<env, file, injected>>

(* Validate with the skipValid test inverted. *)
Validate_SkipInverted(p) ==
  /\ call[p].pc = "validate"
  /\ Update(p,
       IF ~call[p].options.skipValid THEN [call[p] EXCEPT !.pc = "done"]
       ELSE LET e == ValidateStruct(call[p].dest)
            IN  [call[p] EXCEPT !.pc = "done", !.err = e,
                                !.failed = IF e = Nil THEN "" ELSE "validate",
                                !.steps = Append(@, "validate")])
  /\ UNCHANGED <<env, file, injected>>

(* if !options.skipValid { validate.Struct(dest) } and return. *)
Validate(p) ==
  /\ call[p].pc = "validate"
  /\ Update(p,
       IF call[p].options.skipValid THEN [call[p] EXCEPT !.pc = "done"]
       ELSE LET e == ValidateStruct(call[p].dest)
            IN  [call[p] EXCEPT !.pc = "done", !.err = e,
                                !.failed = IF e = Nil THEN "" ELSE "validate",
                                !.steps = Append(@, "validate")])
  /\ UNCHANGED <<env, file, injected>>

(* LoadReturn taking back the entries the call took from the file. *)
LoadReturn_RestoresEnvironment(p) ==
  /\ call[p].pc = "done"
  /\ call' = [call EXCEPT ![p] = IdleCall]
  /\ env' = [k \in DOMAIN env \ (DOMAIN call[p].envMap \ DOMAIN call[p].envAtStart)
               |-> env[k]]
  /\ UNCHANGED <<file, injected>>

(* The caller has read the result and drops the destination. *)
LoadReturn(p) ==
  /\ call[p].pc = "done"
  /\ call' = [call EXCEPT ![p] = IdleCall]
  /\ UNCHANGED <<env, file, injected>>

Steps(p) ==
  \/ EnvFileSkipped(p)
  \/ StatEnvFile(p)
  \/ GodotenvLoad(p)
  \/ GodotenvSetenv(p)
  \/ ParseWithOptions(p)
  \/ SetDefaults(p)
  \/ Validate(p)
  \/ LoadReturn(p)

(* One caller: Load calls follow one another, with the environment and the *)
(* file changed between them.                                              *)
Next ==
  \/ Setenv
  \/ Unsetenv
  \/ WriteFile
  \/ RemoveFile
  \/ LoadBegin(1)
  \/ Steps(1)

Spec == Init /\ [][Next]_vars

(* Two callers: both call Load on destinations of their own, in an         *)
(* environment and beside a file that nothing else changes.                *)
LoadBeginConc(p) == Begin(p, MaxOptsConc, {"ptr_struct"})

InitConc ==
  /\ env \in {EmptyEnv, SetenvIn(EmptyEnv, "PORT", "9090")}
  /\ file \in {NoFile, TestEnvFile}
  /\ call = [p \in Procs |-> IdleCall]
  /\ injected = EmptyEnv

NextConc == \E p \in Procs : LoadBeginConc(p) \/ Steps(p)

SpecConc == InitConc /\ [][NextConc]_vars

---------------------------------------------------------------------------
(* Properties.                                                             *)

Range(q) == {q[i] : i \in DOMAIN q}

Done(p) == call[p].pc = "done"

Outcome(p) == [err |-> call[p].err, dest |-> call[p].dest]

(* What lines 49-66 of Load return and leave in a zeroed destination when  *)
(* the decoder reads environment e.                                        *)
Pipeline(e, o, shape) ==
  IF shape # "ptr_struct" THEN [err |-> ShapeError, dest |-> ZeroConfig]
  ELSE LET r == Decode(ZeroConfig, e, o.prefix)
           d == SetDefaultsOf(r.dest)
       IN  IF r.err # Nil THEN [err |-> r.err, dest |-> r.dest]
           ELSE [err |-> IF o.skipValid THEN Nil ELSE ValidateStruct(d), dest |-> d]

AbortedBeforeDecode(p) ==
  /\ Done(p)
  /\ call[p].err = OpenError
  /\ call[p].dest = ZeroConfig
  /\ Range(call[p].steps) \cap {"decode", "defaults", "validate"} = {}

LastPrefix(opts) ==
  LET at == {i \in DOMAIN opts : opts[i].name = "WithPrefix"}
  IN  IF at = {} THEN ""
      ELSE opts[CHOOSE i \in at : \A j \in at : j <= i].arg

(* C6: the options record of a call is decided by its own option list      *)
(* alone: prefix is the argument of the last WithPrefix ("" without one),  *)
(* skipEnv and skipValid tell whether SkipEnvFile and SkipValidation occur *)
(* in the list.                                                            *)
C6_OptionsLastWriteWins ==
  \A p \in Procs :
    call[p].pc = "envfile"
      => /\ call[p].options.prefix = LastPrefix(call[p].opts)
         /\ call[p].options.skipEnv = (SkipEnvFile \in Range(call[p].opts))
         /\ call[p].options.skipValid = (SkipValidation \in Range(call[p].opts))

C6_Witness ==
  \E p \in Procs :
    /\ call[p].pc = "envfile"
    /\ call[p].opts = <<WithPrefix("APP_"), SkipEnvFile, WithPrefix("")>>
    /\ call[p].options = [prefix |-> "", skipEnv |-> TRUE, skipValid |-> FALSE]

(* The value the decoder stores in field f from environment e. *)
Decoded(e, prefix, f) == Convert(f, e[EnvKey(prefix, f)]).v

(* C3: after a successful Load every field whose variable is set holds the *)
(* value decoded from it, a value that is the zero value of the field's    *)
(* type included.                                                          *)
C3_EnvironmentValueKept ==
  \A p \in Procs :
    (Done(p) /\ call[p].err = Nil /\ call[p].shape = "ptr_struct")
      => \A f \in Fields :
           HasEnvValue(call[p].seen, call[p].options.prefix, f)
             => call[p].dest[f] = Decoded(call[p].seen, call[p].options.prefix, f)

(* C4: a destination that is not a pointer to a structure gets a           *)
(* ShapeError with no step executed: the file is neither looked up nor     *)
(* loaded and the environment is as the call found it.                     *)
C4_ShapeErrorBeforeAnyStep ==
  \A p \in Procs :
    (Done(p) /\ call[p].shape # "ptr_struct")
      => /\ call[p].err = ShapeError
         /\ Range(call[p].steps) \cap {"stat", "file"} = {}
         /\ env = call[p].envAtStart
         /\ call[p].dest = ZeroConfig

(* The required field has no environment value when the call ends. *)
HostMissing(p) == ~HasEnvValue(env, call[p].options.prefix, "Host")

ValidationOutcome(p) ==
  IF call[p].options.skipValid THEN call[p].err = Nil
  ELSE call[p].err = ValidationError({"Host"})

(* C5 as stated: every call whose required field has no environment value  *)
(* returns a ValidationError, or nil when SkipValidation is given.         *)
C5_MissingRequiredAlwaysValidation ==
  \A p \in Procs : (Done(p) /\ HostMissing(p)) => ValidationOutcome(p)

(* The file step of the call does not fail. *)
FileStepPasses(p) ==
  \/ call[p].options.skipEnv
  \/ file.exists /\ ParseEnvFile(file.lines, EmptyEnv).ok
  \/ ~file.exists /\ call[p].variant = "lenient"

(* C5, amended: a call that reaches validation (its destination is a       *)
(* pointer to a structure, its file step does not fail and every variable  *)
(* that is set converts) and whose required field has no environment value *)
(* returns a ValidationError naming the field, or nil when SkipValidation  *)
(* is given.                                                               *)
C5_MissingRequiredAtValidation ==
  \A p \in Procs :
    (/\ Done(p) /\ HostMissing(p)
     /\ call[p].shape = "ptr_struct"
     /\ FileStepPasses(p)
     /\ Decode(ZeroConfig, env, call[p].options.prefix).err = Nil)
      => ValidationOutcome(p)

C5_Witness ==
  \E p \in Procs :
    /\ Done(p) /\ HostMissing(p) /\ call[p].shape = "ptr_struct"
    /\ call[p].options.skipValid
    /\ "defaults" \in Range(call[p].steps)
    /\ call[p].err = Nil

(* The values the default tags of TestConfig stand for. *)
DefaultValue == [Port |-> 8080, Debug |-> FALSE]

(* C7: once a call is past decoding, when it returns every field with a    *)
(* default and no environment value holds the default and every field with *)
(* neither holds its zero value, whether validation succeeds, fails or is  *)
(* skipped.                                                                *)
C7_DefaultsInjectedBeforeReturn ==
  \A p \in Procs :
    (Done(p) /\ "decode" \in Range(call[p].steps) /\ call[p].failed # "decode")
      => \A f \in Fields :
           ~HasEnvValue(call[p].seen, call[p].options.prefix, f)
             => call[p].dest[f] = IF f \in DOMAIN Defaults THEN DefaultValue[f]
                                  ELSE ZeroConfig[f]

C7_Witness ==
  \E p \in Procs :
    /\ Done(p)
    /\ call[p].err = ValidationError({"Host"})
    /\ call[p].dest.Port = 8080
    /\ call[p].dest.Optional = ""

StepRank == [stat |-> 1, file |-> 2, decode |-> 3, defaults |-> 4, validate |-> 5]

ErrorStep == [file |-> "file", shape |-> "decode", decode |-> "decode",
              validation |-> "validate"]

(* C8: the steps of a call run in the order file load, decode, default     *)
(* injection, validation, a skipped step left out; the first step that     *)
(* fails is the last one to run and the call returns its error; and nil is *)
(* returned only when every step ran and none failed.                      *)
C8_StepsInOrderFirstErrorEnds ==
  \A p \in Procs :
    LET c == call[p]
        n == Len(c.steps)
    IN  /\ \A i, j \in 1..n : i < j => StepRank[c.steps[i]] < StepRank[c.steps[j]]
        /\ Range(c.steps) \cap {"stat", "file"} # {} => ~c.options.skipEnv
        /\ "validate" \in Range(c.steps) => ~c.options.skipValid
        /\ c.failed # "" => /\ c.pc = "done"
                            /\ c.err # Nil
                            /\ c.steps[n] = c.failed
                            /\ ErrorStep[c.err.kind] = c.failed
        /\ c.failed = "file" => c.dest = ZeroConfig
        /\ (c.failed = "decode" /\ c.shape = "ptr_struct")
             => c.dest = Decode(ZeroConfig, c.seen, c.options.prefix).dest
        /\ (c.pc = "done" /\ c.err = Nil)
             => /\ c.failed = ""
                /\ {"decode", "defaults"} \subseteq Range(c.steps)
                /\ ("validate" \in Range(c.steps)) = ~c.options.skipValid
                /\ (Range(c.steps) \cap {"stat", "file"} # {}) = ~c.options.skipEnv

C8_Witness ==
  \E p \in Procs :
    /\ Done(p)
    /\ call[p].steps = <<"file", "decode">>
    /\ call[p].err = DecodeError({"Port"})
    /\ call[p].dest.Host = "testhost"
    /\ call[p].dest.Port = 0

(* The required field was given its value by a file load of an earlier    *)
(* call.                                                                   *)
HostInherited(p) == HasEnvValue(call[p].inherited, call[p].options.prefix, "Host")

InheritedHost(p) == call[p].inherited[EnvKey(call[p].options.prefix, "Host")]

C10_ResultFollowsEnvironmentAtDecode ==
  \A p \in Procs :
    LET c == call[p]
        key == EnvKey(c.options.prefix, "Host")
    IN  "decode" \in Range(c.steps)
          => /\ \A k \in DOMAIN c.envAtStart :
                  k \in DOMAIN c.seen /\ c.seen[k] = c.envAtStart[k]
             /\ \A k \in DOMAIN c.seen \ DOMAIN c.envAtStart :
                  \E line \in Range(file.lines) : line = <<k, c.seen[k]>>
             /\ c.dest.Host = IF key \in DOMAIN c.seen THEN c.seen[key] ELSE ""
             /\ (c.pc = "done" /\ ~c.options.skipValid)
                  => (c.err = ValidationError({"Host"})) = (key \notin DOMAIN c.seen)

(* A call with SkipEnvFile that began with HOST unset and yet decoded the  *)
(* HOST the file load of the other call set while it was running.          *)
C10_Witness ==
  \E p, q \in Procs :
    /\ p # q
    /\ Done(p) /\ call[p].options = [ZeroOptions EXCEPT !.skipEnv = TRUE]
    /\ "HOST" \notin DOMAIN call[p].envAtStart
    /\ call[p].dest.Host = "testhost"
    /\ call[p].err = Nil
    /\ "file" \in Range(call[q].steps)
    /\ "HOST" \notin DOMAIN call[q].envAtStart

=============================================================================
